---- MODULE Spec2Model ----
(***************************************************************************)
(* A model of the jason JSON library (src/json.h, src/json.cc): the lexer, *)
(* the recursive-descent parser, the JsonValue tree and the serialiser.    *)
(*                                                                         *)
(* Text is a sequence of characters, each character a one-character        *)
(* string.  Bytes without a TLA+ spelling have names: "BS" is 0x08, "BQ"   *)
(* is the backquote, and "EF" "BB" "BF" are the UTF-8 byte order mark.  NUL is *)
(* the '\0' that Lexer::peek returns at the end of the input; the modelled *)
(* inputs hold no NUL byte and no byte above 0x7F other than a leading     *)
(* byte order mark (std::isdigit/std::isalpha are undefined on those).     *)
(***************************************************************************)
EXTENDS Integers, Sequences, FiniteSets, TLC

VARIABLES
    input,      \* what the caller starts from: a source text or a JsonValue
    source,     \* Lexer::source, the text handed to json::parse
    parser,     \* the Parser object: lexer, currentToken, previousToken
    stack,      \* the parseObject/parseArray activations, innermost last
    pc,         \* where the call of json::parse stands
    result,     \* the JsonValue json::parse returned, or NoValue
    error,      \* the ParsingError json::parse threw, or NoError
    pulled,     \* history: every token Lexer::nextToken returned, in order
    phase,      \* 1: the caller's first parse; 2: its second one
    first       \* the outcome of the first parse, kept for the second

vars == <<input, source, parser, stack, pc, result, error, pulled, phase, first>>

----------------------------------------------------------------------------
(* Characters *)

NUL == "NUL"
BS == "BS"
BOM == <<"EF", "BB", "BF">>

Digits == {"0", "1", "2", "3", "4", "5", "6", "7", "8", "9"}

Lower == {"a", "b", "c", "d", "e", "f", "g", "h", "i", "j", "k", "l", "m",
          "n", "o", "p", "q", "r", "s", "t", "u", "v", "w", "x", "y", "z"}

Upper == {"A", "B", "C", "D", "E", "F", "G", "H", "I", "J", "K", "L", "M",
          "N", "O", "P", "Q", "R", "S", "T", "U", "V", "W", "X", "Y", "Z"}

\* The printable ASCII characters in code order: Printable[i] has code i + 31.
Printable ==
    <<" ", "!", "\"", "#", "$", "%", "&", "'", "(", ")", "*", "+", ",", "-",
      ".", "/", "0", "1", "2", "3", "4", "5", "6", "7", "8", "9", ":", ";",
      "<", "=", ">", "?", "@", "A", "B", "C", "D", "E", "F", "G", "H", "I",
      "J", "K", "L", "M", "N", "O", "P", "Q", "R", "S", "T", "U", "V", "W",
      "X", "Y", "Z", "[", "\\", "]", "^", "_", "BQ", "a", "b", "c", "d", "e",
      "f", "g", "h", "i", "j", "k", "l", "m", "n", "o", "p", "q", "r", "s",
      "t", "u", "v", "w", "x", "y", "z", "{", "|", "}", "~">>

\* The byte value of a character (unsigned, as std::string compares them).
CharCode(c) ==
    CASE c = BS -> 8
      [] c = "\t" -> 9
      [] c = "\n" -> 10
      [] c = "\f" -> 12
      [] c = "\r" -> 13
      [] c = "EF" -> 239
      [] c = "BB" -> 187
      [] c = "BF" -> 191
      [] OTHER -> 31 + (CHOOSE i \in DOMAIN Printable : Printable[i] = c)

isdigit(c) == c \in Digits
isalpha(c) == c \in Lower \cup Upper

DigitVal(c) == CharCode(c) - 48

\* the concatenation of a sequence of texts
RECURSIVE Cat(_)
Cat(parts) == IF parts = <<>> THEN <<>> ELSE Head(parts) \o Cat(Tail(parts))

----------------------------------------------------------------------------
(* Tokens and the Lexer *)

Token(type, lexeme, line, col) ==
    [type |-> type, lexeme |-> lexeme, line |-> line, col |-> col]

\* The text of the Unknown token that stands for an unterminated string.
UnterminatedLexeme ==
    <<"U", "n", "t", "e", "r", "m", "i", "n", "a", "t", "e", "d", " ",
      "s", "t", "r", "i", "n", "g", ".">>

\* Lexer::Lexer: start and current are offsets into source (0 is source.data()).
NewLexer ==
    [start |-> 0, current |-> 0, lineNum |-> 1, colNum |-> 1,
     lineStart |-> 1, colStart |-> 1]

isAtEnd(src, L) == L.current >= Len(src)

\* Lexer::advance, for its effect on the lexer (callers read current[-1]).
LexAdvance(src, L) ==
    IF isAtEnd(src, L) THEN L
    ELSE [L EXCEPT !.current = @ + 1, !.colNum = @ + 1]

peek(src, L) == IF isAtEnd(src, L) THEN NUL ELSE src[L.current + 1]

peekNext(src, L) ==
    IF L.current + 1 >= Len(src) THEN NUL ELSE src[L.current + 2]

\* a // comment that runs on over newlines to the end of the input
LineCommentToEnd(src, L) ==
    [L EXCEPT !.current = Len(src), !.colNum = @ + (Len(src) - L.current)]

\* the while loop of a // comment
RECURSIVE LineCommentLoop(_, _)
LineCommentLoop(src, L) ==
    IF peek(src, L) # "\n" /\ ~isAtEnd(src, L)
    THEN LineCommentLoop(src, LexAdvance(src, L))
    ELSE L

\* the newline bookkeeping the block-comment and string loops do before
\* they advance: if (peek() == '\n') { lineNum++; colNum = 1; }
CountNewline(src, L) ==
    IF peek(src, L) = "\n" THEN [L EXCEPT !.lineNum = @ + 1, !.colNum = 1] ELSE L

\* if (!isAtEnd()) advance();
AdvanceUnlessAtEnd(src, L) == IF ~isAtEnd(src, L) THEN LexAdvance(src, L) ELSE L

\* the while loop of a /* comment
RECURSIVE BlockCommentLoop(_, _)
BlockCommentLoop(src, L) ==
    IF (peek(src, L) # "*" \/ peekNext(src, L) # "/") /\ ~isAtEnd(src, L)
    THEN BlockCommentLoop(src, LexAdvance(src, CountNewline(src, L)))
    ELSE L

\* a /* comment: both opening characters, the loop, both closing characters
BlockComment(src, L) ==
    AdvanceUnlessAtEnd(src, AdvanceUnlessAtEnd(src,
        BlockCommentLoop(src, LexAdvance(src, LexAdvance(src, L)))))

\* case '\n': advance(); lineNum++; colNum = 1;
Newline(L) == [L EXCEPT !.lineNum = @ + 1, !.colNum = 1]

RECURSIVE skipWhitespaceAndComments(_, _)
skipWhitespaceAndComments(src, L) ==
    CASE peek(src, L) \in {" ", "\r", "\t"} ->
            skipWhitespaceAndComments(src, LexAdvance(src, L))
      [] peek(src, L) = "\n" ->
            skipWhitespaceAndComments(src, Newline(LexAdvance(src, L)))
      [] peek(src, L) = "/" /\ peekNext(src, L) = "/" ->
            skipWhitespaceAndComments(src, LineCommentLoop(src, L))
      [] peek(src, L) = "/" /\ peekNext(src, L) = "*" ->
            skipWhitespaceAndComments(src, BlockComment(src, L))
      [] OTHER -> L

\* Lexer::makeToken, with the lexer it leaves behind
makeToken(src, L, type) ==
    [token |-> Token(type, SubSeq(src, L.start + 1, L.current),
                     L.lineStart, L.colStart),
     lexer |-> L]

\* if (peek() == '\\') advance();
SkipBackslash(src, L) == IF peek(src, L) = "\\" THEN LexAdvance(src, L) ELSE L

\* the while loop of stringToken
RECURSIVE StringLoop(_, _)
StringLoop(src, L) ==
    IF peek(src, L) # "\"" /\ ~isAtEnd(src, L)
    THEN StringLoop(src, LexAdvance(src, SkipBackslash(src, CountNewline(src, L))))
    ELSE L

\* stringToken after its loop
StringEnd(src, L) ==
    IF isAtEnd(src, L)
    THEN [token |-> Token("Unknown", UnterminatedLexeme, L.lineStart, L.colStart),
          lexer |-> L]
    ELSE makeToken(src, LexAdvance(src, L), "String")

stringToken(src, L) == StringEnd(src, StringLoop(src, L))

RECURSIVE DigitLoop(_, _)
DigitLoop(src, L) ==
    IF isdigit(peek(src, L)) THEN DigitLoop(src, LexAdvance(src, L)) ELSE L

\* numberToken's fraction: a '.' only when a digit follows it
Fraction(src, L) ==
    IF peek(src, L) = "." /\ isdigit(peekNext(src, L))
    THEN DigitLoop(src, LexAdvance(src, L))
    ELSE L

ExponentSign(src, L) ==
    IF peek(src, L) \in {"+", "-"} THEN LexAdvance(src, L) ELSE L

\* numberToken's exponent: 'e' or 'E', a sign if any, digits if any
Exponent(src, L) ==
    IF peek(src, L) \in {"e", "E"}
    THEN DigitLoop(src, ExponentSign(src, LexAdvance(src, L)))
    ELSE L

numberToken(src, L) ==
    makeToken(src, Exponent(src, Fraction(src, DigitLoop(src, L))), "Number")

RECURSIVE AlphaLoop(_, _)
AlphaLoop(src, L) ==
    IF isalpha(peek(src, L)) THEN AlphaLoop(src, LexAdvance(src, L)) ELSE L

\* the token type of an identifier's text
Keyword(text) ==
    CASE text = <<"t", "r", "u", "e">> -> "True"
      [] text = <<"f", "a", "l", "s", "e">> -> "False"
      [] text = <<"n", "u", "l", "l">> -> "Null"
      [] OTHER -> "Unknown"

\* identifierToken after its loop
IdentifierEnd(src, L) ==
    makeToken(src, L, Keyword(SubSeq(src, L.start + 1, L.current)))

identifierToken(src, L) == IdentifierEnd(src, AlphaLoop(src, L))

\* start = current; lineStart = lineNum; colStart = colNum;
MarkStart(L) ==
    [L EXCEPT !.start = L.current, !.lineStart = L.lineNum, !.colStart = L.colNum]

\* nextToken's switch on c = advance(), L the lexer after that advance
Switch(src, c, L) ==
    CASE c = "{" -> makeToken(src, L, "LeftBrace")
      [] c = "}" -> makeToken(src, L, "RightBrace")
      [] c = "[" -> makeToken(src, L, "LeftBracket")
      [] c = "]" -> makeToken(src, L, "RightBracket")
      [] c = "," -> makeToken(src, L, "Comma")
      [] c = ":" -> makeToken(src, L, "Colon")
      [] c = "\"" -> stringToken(src, L)
      [] isdigit(c) \/ c = "-" -> numberToken(src, L)
      [] isalpha(c) -> identifierToken(src, L)
      [] OTHER -> makeToken(src, L, "Unknown")

\* nextToken once whitespace and comments are skipped and the start marked
Scan(src, L) ==
    IF isAtEnd(src, L) THEN makeToken(src, L, "EndOfFile")
    ELSE Switch(src, peek(src, L), LexAdvance(src, L))

nextToken(src, L) == Scan(src, MarkStart(skipWhitespaceAndComments(src, L)))

----------------------------------------------------------------------------
(* JsonValue: the variant, as a record whose type field names the held     *)
(* alternative; the fields of the other alternatives stay at their default *)

\* A double, as the decimal m * 10^e with m not divisible by 10 (zero is
\* m = 0, e = 0: 0.0 and -0.0 compare equal).  Exact for the short literals
\* and the integers the model reads and writes.
Dec(m, e) == [m |-> m, e |-> e]

RECURSIVE Normalise(_, _)
Normalise(m, e) ==
    IF m = 0 THEN Dec(0, 0)
    ELSE IF m % 10 = 0 THEN Normalise(m \div 10, e + 1)
    ELSE Dec(m, e)

Variant(type, b, d, s, a, o) ==
    [type |-> type, bool |-> b, number |-> d, string |-> s, array |-> a,
     object |-> o]

JNull == Variant("null", FALSE, Dec(0, 0), <<>>, <<>>, <<>>)
JBool(b) == Variant("bool", b, Dec(0, 0), <<>>, <<>>, <<>>)
JNumber(d) == Variant("number", FALSE, d, <<>>, <<>>, <<>>)
JString(s) == Variant("string", FALSE, Dec(0, 0), s, <<>>, <<>>)
JArray(a) == Variant("array", FALSE, Dec(0, 0), <<>>, a, <<>>)
JObject(o) == Variant("object", FALSE, Dec(0, 0), <<>>, <<>>, o)

\* no JsonValue: json::parse has not returned one
NoValue == Variant("none", FALSE, Dec(0, 0), <<>>, <<>>, <<>>)

\* std::string's operator<: lexicographic, byte by byte
RECURSIVE StringLess(_, _)
StringLess(a, b) ==
    IF b = <<>> THEN FALSE
    ELSE IF a = <<>> THEN TRUE
    ELSE IF Head(a) = Head(b) THEN StringLess(Tail(a), Tail(b))
    ELSE CharCode(Head(a)) < CharCode(Head(b))

\* JsonObject is std::map<std::string, JsonValue>: a sequence of members in
\* the map's iteration order.  MapAssign is object[key] = value.
MapAssignFirstWins(object, key, value) ==
    IF \E i \in DOMAIN object : object[i].key = key THEN object
    ELSE LET before == SelectSeq(object, LAMBDA m : StringLess(m.key, key))
             after == SelectSeq(object, LAMBDA m : StringLess(key, m.key))
         IN before \o <<[key |-> key, value |-> value]>> \o after

MapAssignUnordered(object, key, value) ==
    SelectSeq(object, LAMBDA m : m.key # key) \o <<[key |-> key, value |-> value]>>

MapAssign(object, key, value) ==
    LET before == SelectSeq(object, LAMBDA m : StringLess(m.key, key))
        after == SelectSeq(object, LAMBDA m : StringLess(key, m.key))
    IN before \o <<[key |-> key, value |-> value]>> \o after

----------------------------------------------------------------------------
(* Errors *)

ParsingError(message, line, col) ==
    [message |-> message, line |-> line, col |-> col]

NoError == ParsingError("", 0, 0)

----------------------------------------------------------------------------
(* std::stod, on the lexemes numberToken produces *)

DBL_MAX_10_EXP == 308

\* the index after the digits that start at index i (1-based)
RECURSIVE DigitsEnd(_, _)
DigitsEnd(s, i) ==
    IF i <= Len(s) /\ isdigit(s[i]) THEN DigitsEnd(s, i + 1) ELSE i

\* the digits s[i..j-1] appended to the decimal numeral n
RECURSIVE DigitsValue(_, _, _, _)
DigitsValue(s, i, j, n) ==
    IF i >= j THEN n ELSE DigitsValue(s, i + 1, j, 10 * n + DigitVal(s[i]))

RECURSIVE NumDigits(_)
NumDigits(n) == IF n < 10 THEN 1 ELSE 1 + NumDigits(n \div 10)

\* the first four digits of m > 0, zero-padded
RECURSIVE Lead4(_)
Lead4(m) ==
    IF m >= 10000 THEN Lead4(m \div 10)
    ELSE IF m < 1000 THEN Lead4(m * 10)
    ELSE m

Abs(n) == IF n < 0 THEN 0 - n ELSE n

StodResult(status, pos, value) == [status |-> status, pos |-> pos, value |-> value]

\* the range check: val is the decimal read, X the exponent of its first digit
StodRange(val, X, pos) ==
    IF val.m # 0 /\
       (\/ X > DBL_MAX_10_EXP
        \/ X = DBL_MAX_10_EXP /\ Lead4(Abs(val.m)) > 1797
        \/ X < 0 - DBL_MAX_10_EXP
        \/ X = 0 - DBL_MAX_10_EXP /\ Lead4(Abs(val.m)) < 2225)
    THEN StodResult("out_of_range", 0, Dec(0, 0))
    ELSE StodResult("ok", pos, val)

StodValue(val, pos) == StodRange(val, val.e + NumDigits(Abs(val.m)) - 1, pos)

\* the exponent: s[e0..e1-1] are its digits (none: the 'e' is not converted),
\* mant the signed digits of the mantissa, nFrac the number after the point
StodExponent(s, mant, nFrac, mEnd, e0, e1) ==
    IF e1 > e0
    THEN StodValue(Normalise(mant, (IF s[e0 - 1] = "-" THEN 0 - DigitsValue(s, e0, e1, 0)
                                    ELSE DigitsValue(s, e0, e1, 0)) - nFrac),
                   e1 - 1)
    ELSE StodValue(Normalise(mant, 0 - nFrac), mEnd - 1)

\* where the exponent's digits would start, after s[mEnd] = 'e' and a sign
ExponentStart(s, mEnd) ==
    IF mEnd + 1 <= Len(s) /\ s[mEnd + 1] \in {"+", "-"} THEN mEnd + 2 ELSE mEnd + 1

StodAfterMantissa(s, mant, nFrac, mEnd, e0) ==
    IF mEnd <= Len(s) /\ s[mEnd] \in {"e", "E"}
    THEN StodExponent(s, mant, nFrac, mEnd, e0, DigitsEnd(s, e0))
    ELSE StodExponent(s, mant, nFrac, mEnd, mEnd, mEnd)

\* the mantissa: digits s[i0..i1-1], then, if i2 > i1, a point and the
\* digits s[i1+1..i2-1]
StodMantissa(s, neg, i0, i1, i2) ==
    IF (i1 - i0) + (IF i2 > i1 THEN i2 - i1 - 1 ELSE 0) = 0
    THEN StodResult("invalid_argument", 0, Dec(0, 0))
    ELSE StodAfterMantissa(s,
            (IF neg THEN -1 ELSE 1) *
                DigitsValue(s, i1 + 1, i2, DigitsValue(s, i0, i1, 0)),
            IF i2 > i1 THEN i2 - i1 - 1 ELSE 0,
            i2, ExponentStart(s, i2))

StodInteger(s, neg, i0, i1) ==
    StodMantissa(s, neg, i0, i1,
                 IF i1 <= Len(s) /\ s[i1] = "." THEN DigitsEnd(s, i1 + 1) ELSE i1)

StodSigned(s, neg, i0) == StodInteger(s, neg, i0, DigitsEnd(s, i0))

\* status "ok" with the value and pos, the number of characters converted,
\* or the exception stod throws
stod(s) ==
    StodSigned(s, Len(s) >= 1 /\ s[1] = "-",
               IF Len(s) >= 1 /\ s[1] \in {"-", "+"} THEN 2 ELSE 1)

----------------------------------------------------------------------------
(* The Parser *)

\* a Token member the constructor has not assigned yet
UninitToken == Token("Uninit", <<>>, 0, 0)

NewParser ==
    [lexer |-> NewLexer, currentToken |-> UninitToken,
     previousToken |-> UninitToken]

\* The parser while one handler runs: the Parser object, the tokens pulled
\* so far, and the ParsingError in flight (NoError while none is thrown).
Running(P, hist) == [parser |-> P, pulled |-> hist, thrown |-> NoError]

\* the parser after nextToken returned nt, before advance checks its type
Pulled(R, nt) ==
    [parser |-> [lexer |-> nt.lexer, currentToken |-> nt.token,
                 previousToken |-> R.parser.currentToken],
     pulled |-> Append(R.pulled, nt.token),
     thrown |-> NoError]

\* if (currentToken.type == TokenType::Unknown) throw ParsingError(...)
ThrowIfUnknown(R) ==
    IF R.parser.currentToken.type = "Unknown"
    THEN [R EXCEPT !.thrown =
            ParsingError("Unexpected character or unterminated literal",
                         R.parser.currentToken.line, R.parser.currentToken.col)]
    ELSE R

\* Parser::advance that lets an Unknown token through
advanceNoThrow(src, R) == Pulled(R, nextToken(src, R.parser.lexer))

\* Parser::advance
advance(src, R) == ThrowIfUnknown(Pulled(R, nextToken(src, R.parser.lexer)))

\* Parser::consume
consume(src, R, type, message) ==
    IF R.parser.currentToken.type = type THEN advance(src, R)
    ELSE [R EXCEPT !.thrown = ParsingError(message, R.parser.currentToken.line,
                                           R.parser.currentToken.col)]

\* an escape table that keeps every escaped character as it is
EscapedVerbatim(c) == c

\* what parseString appends for the character c after a backslash
Escaped(c) ==
    CASE c = "\"" -> "\""
      [] c = "\\" -> "\\"
      [] c = "/" -> "/"
      [] c = "b" -> BS
      [] c = "f" -> "\f"
      [] c = "n" -> "\n"
      [] c = "r" -> "\r"
      [] c = "t" -> "\t"
      [] OTHER -> c

\* the body of Parser::parseString's for loop, from index i (0-based, as in
\* the code) with the characters decoded so far
RECURSIVE Unescape(_, _, _)
Unescape(view, i, res) ==
    IF ~(i < Len(view) - 1) THEN res
    ELSE IF view[i + 1] = "\\" /\ i + 1 < Len(view) - 1
    THEN Unescape(view, i + 2, Append(res, Escaped(view[i + 2])))
    ELSE Unescape(view, i + 1, Append(res, view[i + 1]))

\* the string Parser::parseString builds from a String token's lexeme
parseStringResult(view) == Unescape(view, 1, <<>>)

Frame(kind) ==
    [kind |-> kind, array |-> <<>>, object |-> <<>>, key |-> <<>>,
     members |-> <<>>]

\* an exception leaves json::parse: every activation is unwound
Throw(R) ==
    /\ pc' = "error"
    /\ error' = R.thrown
    /\ parser' = R.parser
    /\ pulled' = R.pulled
    /\ stack' = <<>>
    /\ UNCHANGED <<input, source, result, phase, first>>

\* throw ParsingError(message, currentToken.line, currentToken.col)
Fail(message) ==
    /\ pc' = "error"
    /\ error' = ParsingError(message, parser.currentToken.line,
                             parser.currentToken.col)
    /\ stack' = <<>>
    /\ UNCHANGED <<input, source, parser, pulled, result, phase, first>>

\* parseValue returns v to json::parse, which returns it to its caller
ReturnToCaller(R, v, stk) ==
    /\ result' = v
    /\ pc' = "done"
    /\ stack' = stk

\* parseValue returns v to array.push_back(...)
ReturnToArray(R, v, stk) ==
    /\ result' = result
    /\ pc' = "arrayAfter"
    /\ stack' = [stk EXCEPT ![Len(stk)].array = Append(@, v)]

\* parseValue returns v to object[std::move(key)] = ...
ReturnToObject(R, v, stk) ==
    /\ result' = result
    /\ pc' = "objectAfter"
    /\ stack' = [stk EXCEPT
                   ![Len(stk)].object = MapAssign(@, stk[Len(stk)].key, v),
                   ![Len(stk)].members =
                       Append(@, [key |-> stk[Len(stk)].key, value |-> v])]

\* parseValue returns v to its caller: the innermost activation of stk or,
\* with none, json::parse
Return(R, v, stk) ==
    /\ parser' = R.parser
    /\ pulled' = R.pulled
    /\ UNCHANGED <<input, source, error, phase, first>>
    /\ CASE stk = <<>> -> ReturnToCaller(R, v, stk)
         [] stk # <<>> /\ stk[Len(stk)].kind = "array" -> ReturnToArray(R, v, stk)
         [] OTHER -> ReturnToObject(R, v, stk)

\* control moves to label l inside the running parse
Goto(R, l, stk) ==
    /\ parser' = R.parser
    /\ pulled' = R.pulled
    /\ stack' = stk
    /\ pc' = l
    /\ UNCHANGED <<input, source, result, error, phase, first>>

\* a return that refuses anything but the end of the input after the value
FinishStrict(R, v, stk) ==
    IF R.thrown # NoError THEN Throw(R)
    ELSE IF stk = <<>> /\ R.parser.currentToken.type # "EndOfFile"
    THEN Throw([R EXCEPT !.thrown =
                  ParsingError("Expected the end of the input.",
                               R.parser.currentToken.line, R.parser.currentToken.col)])
    ELSE Return(R, v, stk)

\* after a last advance or consume: its exception, or the return of v
Finish(R, v, stk) == IF R.thrown # NoError THEN Throw(R) ELSE Return(R, v, stk)

\* after an advance or consume: its exception, or on to label l
Proceed(R, l, stk) == IF R.thrown # NoError THEN Throw(R) ELSE Goto(R, l, stk)

Here == Running(parser, pulled)
Pop == SubSeq(stack, 1, Len(stack) - 1)

\* source.remove_prefix(3) when the text starts with the byte order mark
StripBOM(text) ==
    IF Len(text) >= 3 /\ SubSeq(text, 1, 3) = BOM
    THEN SubSeq(text, 4, Len(text))
    ELSE text

\* the Parser constructed: its advance() has run
Constructed(R) ==
    /\ parser' = R.parser
    /\ pulled' = R.pulled
    /\ IF R.thrown # NoError
       THEN pc' = "error" /\ error' = R.thrown
       ELSE pc' = "parseValue" /\ error' = error

\* json::parse up to the call of parseValue: the byte order mark is dropped
\* and the Parser constructed, which pulls the first token
Parse ==
    /\ pc = "parse"
    /\ source' = StripBOM(source)
    /\ Constructed(advance(StripBOM(source), Running(NewParser, <<>>)))
    /\ UNCHANGED <<input, stack, result, phase, first>>

\* parseObject after consume(LeftBrace) left the parser as R
ObjectBegin(R) ==
    IF R.thrown # NoError THEN Throw(R)
    ELSE IF R.parser.currentToken.type # "RightBrace"
    THEN Goto(R, "objectMember", Append(stack, Frame("object")))
    ELSE Finish(consume(source, R, "RightBrace", "Expected '}' to end an object."),
                JObject(<<>>), stack)

\* parseValue on '{': parseObject up to its first member or its return
ParseObject ==
    /\ pc = "parseValue"
    /\ parser.currentToken.type = "LeftBrace"
    /\ ObjectBegin(consume(source, Here, "LeftBrace",
                           "Expected '{' to start an object."))

\* a key that is escape-decoded as a string value is
KeyOfDecoded(lexeme) == parseStringResult(lexeme)

\* the key of an object member: the String token's lexeme without its quotes
KeyOf(lexeme) == SubSeq(lexeme, 2, Len(lexeme) - 1)

\* parseObject after the advance() that follows the key left the parser as R
ObjectColon(R, key) ==
    IF R.thrown # NoError THEN Throw(R)
    ELSE Proceed(consume(source, R, "Colon", "Expected ':' after object key."),
                 "parseValue", [stack EXCEPT ![Len(stack)].key = key])

\* parseObject from the top of its loop to the call of parseValue
ObjectMember ==
    /\ pc = "objectMember"
    /\ IF parser.currentToken.type # "String"
       THEN Fail("Expected a string key for object member.")
       ELSE ObjectColon(advance(source, Here), KeyOf(parser.currentToken.lexeme))

\* parseObject after object[key] = parseValue()
ObjectAfterMember ==
    /\ pc = "objectAfter"
    /\ IF parser.currentToken.type = "RightBrace"
       THEN Finish(consume(source, Here, "RightBrace", "Expected '}' to end an object."),
                   JObject(stack[Len(stack)].object), Pop)
       ELSE Proceed(consume(source, Here, "Comma",
                            "Expected ',' or '}' after object member."),
                    "objectMember", stack)

\* parseArray after consume(LeftBracket) left the parser as R
ArrayBegin(R) ==
    IF R.thrown # NoError THEN Throw(R)
    ELSE IF R.parser.currentToken.type # "RightBracket"
    THEN Goto(R, "parseValue", Append(stack, Frame("array")))
    ELSE Finish(consume(source, R, "RightBracket", "Expected ']' to end an array."),
                JArray(<<>>), stack)

\* parseValue on '[': parseArray up to its first element or its return
ParseArray ==
    /\ pc = "parseValue"
    /\ parser.currentToken.type = "LeftBracket"
    /\ ArrayBegin(consume(source, Here, "LeftBracket",
                          "Expected '[' to start an array."))

\* the array closed: consume(RightBracket) and return array
ArrayEnd(R) == Finish(R, JArray(stack[Len(stack)].array), Pop)

\* a parseArray that, after a comma, lets ']' close the array
ArrayCommaLenient(R) ==
    IF R.thrown = NoError /\ R.parser.currentToken.type = "RightBracket"
    THEN ArrayEnd(consume(source, R, "RightBracket", "Expected ']' to end an array."))
    ELSE Proceed(R, "parseValue", stack)

\* parseArray after consume(Comma) left the parser as R: the next element
ArrayComma(R) == Proceed(R, "parseValue", stack)

\* parseArray after array.push_back(parseValue())
ArrayAfterElement ==
    /\ pc = "arrayAfter"
    /\ IF parser.currentToken.type = "RightBracket"
       THEN ArrayEnd(consume(source, Here, "RightBracket",
                             "Expected ']' to end an array."))
       ELSE ArrayComma(consume(source, Here, "Comma",
                               "Expected ',' or ']' after array element."))

\* parseValue on a String token
ParseString ==
    /\ pc = "parseValue"
    /\ parser.currentToken.type = "String"
    /\ Finish(advance(source, Here),
              JString(parseStringResult(parser.currentToken.lexeme)), stack)

\* parseNumber once std::stod has run on the lexeme
Converted(conv, lexeme) ==
    CASE conv.status = "invalid_argument" -> Fail("Invalid number format.")
      [] conv.status = "out_of_range" -> Fail("Number is out of range for a double.")
      [] conv.status = "ok" /\ conv.pos # Len(lexeme) ->
             Fail("Invalid characters in number literal.")
      [] OTHER -> Finish(advance(source, Here), JNumber(conv.value), stack)

\* parseValue on a Number token
ParseNumber ==
    /\ pc = "parseValue"
    /\ parser.currentToken.type = "Number"
    /\ Converted(stod(parser.currentToken.lexeme), parser.currentToken.lexeme)

\* the JsonValue of a True, False or Null token
Literal(type) == IF type = "Null" THEN JNull ELSE JBool(type = "True")

\* parseValue on true, false or null
ParseLiteral ==
    /\ pc = "parseValue"
    /\ parser.currentToken.type \in {"True", "False", "Null"}
    /\ Finish(advance(source, Here), Literal(parser.currentToken.type), stack)

\* parseValue on any other token
ParseValueDefault ==
    /\ pc = "parseValue"
    /\ parser.currentToken.type \notin
           {"LeftBrace", "LeftBracket", "String", "Number", "True", "False", "Null"}
    /\ Fail("Expected a value (object, array, string, number, true, false, or null).")

ParseStep ==
    \/ Parse
    \/ ParseObject
    \/ ObjectMember
    \/ ObjectAfterMember
    \/ ParseArray
    \/ ArrayAfterElement
    \/ ParseString
    \/ ParseNumber
    \/ ParseLiteral
    \/ ParseValueDefault

\* A caller that parses twice: once its first json::parse has returned or
\* thrown, it keeps the outcome and calls json::parse on a second text.
Reparse(text) ==
    /\ phase = 1
    /\ pc \in {"done", "error"}
    /\ first' = [status |-> pc, value |-> result]
    /\ phase' = 2
    /\ source' = text
    /\ parser' = NewParser
    /\ stack' = <<>>
    /\ pc' = "parse"
    /\ result' = NoValue
    /\ error' = NoError
    /\ pulled' = <<>>
    /\ UNCHANGED input

----------------------------------------------------------------------------
(* The serialiser *)

RECURSIVE Pow10(_)
Pow10(k) == IF k <= 0 THEN 1 ELSE 10 * Pow10(k - 1)

\* the decimal digits of n >= 0
RECURSIVE DigitsOf(_)
DigitsOf(n) ==
    IF n < 10 THEN <<Printable[17 + n]>>
    ELSE Append(DigitsOf(n \div 10), Printable[17 + (n % 10)])

Zeros(k) == [i \in 1..k |-> "0"]
Spaces(k) == [i \in 1..k |-> " "]

\* operator<<(double) of a default-constructed stream: printf's %g with
\* precision 6.  Exact where the double is the decimal itself (integers and
\* decimals of up to 6 digits); a longer fraction is rounded as its decimal.
StreamPrecision == 6

FormatDouble(d) ==
    IF d.m = 0 THEN <<"0">>
    ELSE
    LET P == StreamPrecision
        sign == IF d.m < 0 THEN <<"-">> ELSE <<>>
        mag == IF d.m < 0 THEN 0 - d.m ELSE d.m
        n == NumDigits(mag)
        \* round to P significant digits, ties to even
        cut == Pow10(n - P)
        q == mag \div cut
        r == mag % cut
        up == n > P /\ (2 * r > cut \/ (2 * r = cut /\ q % 2 = 1))
        kept == IF n > P THEN (IF up THEN q + 1 ELSE q) ELSE mag
        \* the decimal exponent of the leading digit, after rounding
        X == d.e + NumDigits(kept) + (IF n > P THEN n - P ELSE 0) - 1
        sig == DigitsOf(Normalise(kept, 0).m)
        k == Len(sig)
        absX == IF X < 0 THEN 0 - X ELSE X
    IN IF X < -4 \/ X >= P
       THEN \* %e style, trailing zeros removed, two exponent digits at least
            sign \o <<sig[1]>>
                 \o (IF k > 1 THEN <<".">> \o SubSeq(sig, 2, k) ELSE <<>>)
                 \o <<"e", IF X < 0 THEN "-" ELSE "+">>
                 \o (IF absX < 10 THEN <<"0">> ELSE <<>>) \o DigitsOf(absX)
       ELSE IF X >= 0
       THEN \* %f style, trailing zeros removed
            sign \o (IF k <= X + 1 THEN sig \o Zeros(X + 1 - k)
                     ELSE SubSeq(sig, 1, X + 1) \o <<".">> \o SubSeq(sig, X + 2, k))
       ELSE sign \o <<"0", ".">> \o Zeros(absX - 1) \o sig

\* json::serialise, as the text it writes to the stream
RECURSIVE serialise(_, _)
serialise(val, indent) ==
    CASE val.type = "null" -> <<"n", "u", "l", "l">>
      [] val.type = "bool" ->
            IF val.bool THEN <<"t", "r", "u", "e">> ELSE <<"f", "a", "l", "s", "e">>
      [] val.type = "number" -> FormatDouble(val.number)
      [] val.type = "string" -> <<"\"">> \o val.string \o <<"\"">>
      [] val.type = "array" ->
            LET arg == val.array
                line(i) == Spaces(indent + 2) \o serialise(arg[i], indent + 2)
                           \o (IF i < Len(arg) THEN <<",">> ELSE <<>>) \o <<"\n">>
            IN <<"[", "\n">> \o Cat([i \in 1..Len(arg) |-> line(i)])
               \o Spaces(indent) \o <<"]">>
      [] val.type = "object" ->
            LET arg == val.object
                line(i) == Spaces(indent + 2) \o <<"\"">> \o arg[i].key
                           \o <<"\"", ":", " ">>
                           \o serialise(arg[i].value, indent + 2)
                           \o (IF i < Len(arg) THEN <<",">> ELSE <<>>) \o <<"\n">>
            IN <<"{", "\n">> \o Cat([i \in 1..Len(arg) |-> line(i)])
               \o Spaces(indent) \o <<"}">>

----------------------------------------------------------------------------
(* The callers: the inputs of src/main.cc, and bounded sets of inputs *)

ComplexJsonSource ==
    <<"{", "\n", " ", " ", " ", " ", " ", " ", " ", " ", "/", "/", " ", "T",
      "h", "i", "s", " ", "i", "s", " ", "a", " ", "t", "e", "s", "t", " ",
      "J", "S", "O", "N", " ", "f", "i", "l", "e", ".", "\n", " ", " ", " ",
      " ", " ", " ", " ", " ", "\"", "n", "a", "m", "e", "\"", ":", " ",
      "\"", "J", "o", "h", "n", " ", "D", "o", "e", "\"", ",", "\n", " ",
      " ", " ", " ", " ", " ", " ", " ", "\"", "a", "g", "e", "\"", ":", " ",
      "3", "0", ",", "\n", " ", " ", " ", " ", " ", " ", " ", " ", "\"", "i",
      "s", "S", "t", "u", "d", "e", "n", "t", "\"", ":", " ", "f", "a", "l",
      "s", "e", ",", "\n", " ", " ", " ", " ", " ", " ", " ", " ", "\"", "c",
      "o", "u", "r", "s", "e", "s", "\"", ":", " ", "[", "\n", " ", " ", " ",
      " ", " ", " ", " ", " ", " ", " ", " ", " ", "/", "*", " ", "B", "l",
      "o", "c", "k", " ", "c", "o", "m", "m", "e", "n", "t", " ", "f", "o",
      "r", " ", "c", "o", "u", "r", "s", "e", "s", " ", "*", "/", "\n", " ",
      " ", " ", " ", " ", " ", " ", " ", " ", " ", " ", " ", "{", "\"", "t",
      "i", "t", "l", "e", "\"", ":", " ", "\"", "H", "i", "s", "t", "o", "r",
      "y", "\"", ",", " ", "\"", "c", "r", "e", "d", "i", "t", "s", "\"",
      ":", " ", "3", "}", ",", "\n", " ", " ", " ", " ", " ", " ", " ", " ",
      " ", " ", " ", " ", "{", "\"", "t", "i", "t", "l", "e", "\"", ":", " ",
      "\"", "M", "a", "t", "h", "\"", ",", " ", "\"", "c", "r", "e", "d",
      "i", "t", "s", "\"", ":", " ", "4", "}", "\n", " ", " ", " ", " ", " ",
      " ", " ", " ", "]", ",", "\n", " ", " ", " ", " ", " ", " ", " ", " ",
      "\"", "a", "d", "d", "r", "e", "s", "s", "\"", ":", " ", "n", "u", "l",
      "l", "\n", " ", " ", " ", " ", "}">>

invalidJsonSource ==
    <<"{", "\n", " ", " ", " ", " ", " ", " ", " ", " ", "\"", "k", "e", "y",
      "1", "\"", ":", " ", "\"", "v", "a", "l", "u", "e", "1", "\"", "\n",
      " ", " ", " ", " ", " ", " ", " ", " ", "\"", "k", "e", "y", "2", "\"",
      ":", " ", "\"", "v", "a", "l", "u", "e", "2", "\"", "\n", " ", " ",
      " ", " ", "}">>

unterminatedStringSource ==
    <<"{", " ", "\"", "k", "e", "y", "\"", ":", " ", "\"", "v", "a", "l",
      "u", "e", " ", "i", "s", " ", "n", "o", "t", " ", "c", "l", "o", "s",
      "e", "d", " ", "}">>

extraCommaJsonSource ==
    <<"{", " ", "\"", "k", "e", "y", "\"", ":", " ", "\"", "v", "a", "l",
      "u", "e", " ", "t", "h", "a", "t", " ", "m", "a", "k", "e", "s", " ",
      "i", "t", " ", "s", "e", "e", "m", " ", "l", "i", "k", "e", " ", "t",
      "h", "e", "r", "e", " ", "i", "s", " ", "a", "n", "o", "t", "h", "e",
      "r", " ", "v", "a", "l", "u", "e", "\"", ",", " ", "}">>

Examples ==
    {ComplexJsonSource, invalidJsonSource, unterminatedStringSource,
     extraCommaJsonSource}

\* every text made of at most n of the given pieces
Texts(pieces, n) ==
    {Cat(ps) : ps \in UNION {[1..k -> pieces] : k \in 0..n}}

\* json::parse(input) is about to be called
Start ==
    /\ source = input
    /\ parser = NewParser
    /\ stack = <<>>
    /\ pc = "parse"
    /\ result = NoValue
    /\ error = NoError
    /\ pulled = <<>>
    /\ phase = 1
    /\ first = [status |-> "none", value |-> NoValue]

\* brackets, a comma, a number, an object key and an unrecognised character
Pieces ==
    {<<"[">>, <<"]">>, <<",">>, <<"1">>, <<"{">>, <<"}">>,
     <<"\"", "a", "\"", ":">>, <<"@">>}

MaxPieces == 5

\* the shortest texts, which reach every handler of the parser
SmallTexts == Texts(Pieces, 2)

Init ==
    /\ input \in Examples \cup Texts(Pieces, MaxPieces)
    /\ Start

Next == ParseStep

Spec == Init /\ [][Next]_vars

\* Objects: '{', at most MaxMembers members separated by commas, '}'.  The
\* keys differ in case, in length and in order; a key may come twice.
MaxMembers == 3

MemberKeys == {<<"a">>, <<"b">>, <<"B">>, <<"a", "b">>}

MemberTexts ==
    {<<"\"">> \o k \o <<"\"", ":">> \o v : k \in MemberKeys, v \in {<<"1">>, <<"2">>}}

RECURSIVE Join(_)
Join(ms) ==
    IF Len(ms) = 0 THEN <<>>
    ELSE IF Len(ms) = 1 THEN ms[1]
    ELSE ms[1] \o <<",">> \o Join(Tail(ms))

ObjectTexts ==
    {<<"{">> \o Join(ms) \o <<"}">> :
        ms \in UNION {[1..k -> MemberTexts] : k \in 0..MaxMembers}}

InitKeys ==
    /\ input \in Examples \cup SmallTexts \cup ObjectTexts
    /\ Start

SpecKeys == InitKeys /\ [][Next]_vars

\* Objects of at most MaxEscapedMembers members whose key and value are the
\* same string literal, spelled with and without backslashes
MaxEscapedMembers == 3

EscapedLiterals ==
    {<<"\"", "a", "/", "b", "\"">>, <<"\"", "a", "\\", "/", "b", "\"">>,
     <<"\"", "\\", "n", "\"">>, <<"\"", "n", "\"">>, <<"\"", "\\", "\\", "\"">>}

EscapedMemberTexts == {t \o <<":">> \o t : t \in EscapedLiterals}

EscapedObjectTexts ==
    {<<"{">> \o Join(ms) \o <<"}">> :
        ms \in UNION {[1..k -> EscapedMemberTexts] : k \in 0..MaxEscapedMembers}}

InitEscapedKeys ==
    /\ input \in Examples \cup SmallTexts \cup EscapedObjectTexts
    /\ Start

SpecEscapedKeys == InitEscapedKeys /\ [][Next]_vars

\* Lexical texts: quotes, a backslash, a newline, the two ends of a block
\* comment, an unrecognised character, a number, a space and brackets
MaxLexPieces == 4

LexPieces ==
    {<<"\"">>, <<"\\">>, <<"\n">>, <<"@">>, <<"1">>, <<" ">>, <<"/", "*">>,
     <<"*", "/">>, <<"[">>, <<"]">>}

InitLex ==
    /\ input \in Examples \cup SmallTexts \cup Texts(LexPieces, MaxLexPieces)
    /\ Start

SpecLex == InitLex /\ [][Next]_vars

\* String literals: at most MaxContent pieces between two quotes, as the
\* whole text, as the element of an array and as the value of a member
MaxContent == 3

ContentPieces ==
    {<<"\\">>, <<"\"">>, <<"n">>, <<"/">>, <<"b">>, <<"a">>,
     <<"u", "0", "0", "4", "1">>}

Around ==
    {<<<<>>, <<>>>>, <<<<"[">>, <<"]">>>>, <<<<"{", "\"", "k", "\"", ":">>, <<"}">>>>}

StringTexts ==
    {w[1] \o <<"\"">> \o c \o <<"\"">> \o w[2] :
        c \in Texts(ContentPieces, MaxContent), w \in Around}

InitStrings ==
    /\ input \in Examples \cup SmallTexts \cup StringTexts
    /\ Start

SpecStrings == InitStrings /\ [][Next]_vars

\* Commented texts: the openers and the closer of comments, a slash, a
\* newline, a quote, a backslash, a number and brackets
MaxCommentPieces == 4

CommentPieces ==
    {<<"/", "/">>, <<"/", "*">>, <<"*", "/">>, <<"/">>, <<"\n">>, <<"\"">>,
     <<"\\">>, <<"1">>, <<"[">>, <<"]">>}

\* the least number of a non-empty set of numbers
First(S) == CHOOSE j \in S : \A k \in S : j <= k

\* the places from i on where a string literal or a comment starts
Openers(text, i) ==
    {j \in i..Len(text) :
        \/ text[j] = "\""
        \/ text[j] = "/" /\ j < Len(text) /\ text[j + 1] \in {"/", "*"}}

\* the number of backslashes in a row that end just before place j, none of
\* them before place i
Backslashes(text, i, j) ==
    j - 1 - First({k \in (i - 1)..(j - 1) :
                      \A n \in (k + 1)..(j - 1) : text[n] = "\\"})

\* the quotes from i on that no backslash escapes, in a string literal whose
\* first character is at i: a backslash escapes the character after it
ClosingQuotes(text, i) ==
    {j \in i..Len(text) : text[j] = "\"" /\ Backslashes(text, i, j) % 2 = 0}

\* text with each comment outside a string literal replaced by one space:
\* a // comment up to its newline, a block comment through its closer or to
\* the end of the input.  mode is where character i is: in "code", in a
\* "string", in a "line" comment or in a "block" comment.
RECURSIVE Strip(_, _, _)
RECURSIVE StripFrom(_, _, _)
Strip(text, i, mode) ==
    CASE i > Len(text) -> <<>>
      [] i <= Len(text) /\ mode = "code" ->
            IF Openers(text, i) = {} THEN SubSeq(text, i, Len(text))
            ELSE StripFrom(text, i, First(Openers(text, i)))
      [] i <= Len(text) /\ mode = "string" ->
            IF ClosingQuotes(text, i) = {} THEN SubSeq(text, i, Len(text))
            ELSE SubSeq(text, i, First(ClosingQuotes(text, i)))
                    \o Strip(text, First(ClosingQuotes(text, i)) + 1, "code")
      [] i <= Len(text) /\ mode = "line" ->
            IF \E j \in i..Len(text) : text[j] = "\n"
            THEN Strip(text, First({j \in i..Len(text) : text[j] = "\n"}), "code")
            ELSE <<>>
      [] i <= Len(text) /\ mode = "block" ->
            IF \E j \in i..(Len(text) - 1) : text[j] = "*" /\ text[j + 1] = "/"
            THEN Strip(text, First({j \in i..(Len(text) - 1) :
                                       text[j] = "*" /\ text[j + 1] = "/"}) + 2, "code")
            ELSE <<>>

\* the code from i up to the opener at j copied, then the string literal or
\* the comment that starts at j
StripFrom(text, i, j) ==
    SubSeq(text, i, j - 1)
        \o (IF text[j] = "\"" THEN <<"\"">> \o Strip(text, j + 1, "string")
            ELSE <<" ">> \o Strip(text, j + 2, IF text[j + 1] = "/" THEN "line" ELSE "block"))

StripComments(text) == Strip(text, 1, "code")

InitComments ==
    /\ input \in Examples \cup SmallTexts \cup Texts(CommentPieces, MaxCommentPieces)
    /\ Start

\* the second text is the first one without its comments
ParseStripped == Reparse(StripComments(input))

NextComments == ParseStep \/ ParseStripped

SpecComments == InitComments /\ [][NextComments]_vars

\* A caller that serialises a value to a stream in its default state and
\* parses the text written
Serialise ==
    /\ pc = "serialise"
    /\ source' = serialise(input, 0)
    /\ pc' = "parse"
    /\ UNCHANGED <<input, parser, stack, result, error, pulled, phase, first>>

\* Values: scalars, arrays and objects of at most MaxElements scalars, and
\* arrays and objects of one of those
MaxElements == 2

RoundTripNumbers ==
    {Dec(0, 0), Dec(1, 0), Dec(-15, -1), Dec(1, 6), Dec(1234567, 0)}

RoundTripStrings == {<<>>, <<"a", " ", "/", "/">>, <<"\"", ",", "]">>}

RoundTripKeys == <<<<>>, <<"a">>, <<"a", "b">>, <<"b">>>>

Scalars ==
    {JNull, JBool(TRUE), JBool(FALSE)}
        \cup {JNumber(d) : d \in RoundTripNumbers}
        \cup {JString(t) : t \in RoundTripStrings}

Arrays(S, n) == {JArray(a) : a \in UNION {[1..k -> S] : k \in 0..n}}

Objects(S, n) ==
    {JObject([i \in DOMAIN f |-> [key |-> RoundTripKeys[i], value |-> f[i]]]) :
        f \in UNION {[1..k -> S] : k \in 0..n}}

Flat == Scalars \cup Arrays(Scalars, MaxElements) \cup Objects(Scalars, MaxElements)

Values == Flat \cup Arrays(Flat, 1) \cup Objects(Flat, 1)

InitRoundTrip ==
    /\ input \in Values
    /\ source = <<>>
    /\ parser = NewParser
    /\ stack = <<>>
    /\ pc = "serialise"
    /\ result = NoValue
    /\ error = NoError
    /\ pulled = <<>>
    /\ phase = 1
    /\ first = [status |-> "none", value |-> NoValue]

NextRoundTrip == Serialise \/ ParseStep

SpecRoundTrip == InitRoundTrip /\ [][NextRoundTrip]_vars

\* JsonValue's predicates: std::holds_alternative<T>(value)
holds_alternative(v, T) == v.type = T

isNull(v) == holds_alternative(v, "null")
isBool(v) == holds_alternative(v, "bool")
isNumber(v) == holds_alternative(v, "number")
isString(v) == holds_alternative(v, "string")
isArray(v) == holds_alternative(v, "array")
isObject(v) == holds_alternative(v, "object")

\* the payload a JsonValue keeps for the alternative T
Payload(v, T) ==
    CASE T = "bool" -> v.bool
      [] T = "number" -> v.number
      [] T = "string" -> v.string
      [] T = "array" -> v.array
      [] T = "object" -> v.object

\* a get that hands out the slot of T whatever the value holds
getCoercing(v, T) == [status |-> "ok", type |-> T, payload |-> Payload(v, T)]

\* std::get<T>(value): a reference to the payload when the variant holds T,
\* std::bad_variant_access when it does not
get(v, T) ==
    IF holds_alternative(v, T)
    THEN [status |-> "ok", type |-> T, payload |-> Payload(v, T)]
    ELSE [status |-> "bad_variant_access", type |-> T, payload |-> <<>>]

asBool(v) == get(v, "bool")
asNumber(v) == get(v, "number")
asString(v) == get(v, "string")
asArray(v) == get(v, "array")
asObject(v) == get(v, "object")

\* A caller that holds the JsonValue input calls one accessor on it; first
\* keeps what the call did.
Access(name, out) ==
    /\ pc = "hold"
    /\ first' = [status |-> out.status, value |-> NoValue, accessor |-> name,
                 type |-> out.type, payload |-> out.payload]
    /\ pc' = IF out.status = "ok" THEN "returned" ELSE "thrown"
    /\ UNCHANGED <<input, source, parser, stack, result, error, pulled, phase>>

AsBool == Access("asBool", asBool(input))
AsNumber == Access("asNumber", asNumber(input))
AsString == Access("asString", asString(input))
AsArray == Access("asArray", asArray(input))
AsObject == Access("asObject", asObject(input))

\* the payloads a caller may store through the reference of alternative T
Stores(v, T) ==
    CASE T = "bool" -> {JBool(b) : b \in BOOLEAN}
      [] T = "number" -> {JNumber(d) : d \in RoundTripNumbers}
      [] T = "string" -> {JString(t) : t \in RoundTripStrings}
      [] T = "array" -> {JArray(Append(v.array, JNull))}
      [] T = "object" -> {JObject(MapAssign(v.object, <<"a">>, JNull))}

\* The caller writes through the reference a non-const accessor returned,
\* at most MaxWrites times (phase counts the writes from 1).
MaxWrites == 1

WriteThrough ==
    /\ pc = "returned"
    /\ phase <= MaxWrites
    /\ input' \in Stores(input, first.type)
    /\ phase' = phase + 1
    /\ pc' = "hold"
    /\ UNCHANGED <<source, parser, stack, result, error, pulled, first>>

InitAccess ==
    /\ input \in Values
    /\ source = <<>>
    /\ parser = NewParser
    /\ stack = <<>>
    /\ pc = "hold"
    /\ result = NoValue
    /\ error = NoError
    /\ pulled = <<>>
    /\ phase = 1
    /\ first = [status |-> "none", value |-> NoValue, accessor |-> "none",
                type |-> "none", payload |-> <<>>]

NextAccess == AsBool \/ AsNumber \/ AsString \/ AsArray \/ AsObject \/ WriteThrough

SpecAccess == InitAccess /\ [][NextAccess]_vars

----------------------------------------------------------------------------
(* Properties *)

Closers == {"RightBracket", "RightBrace"}

\* the number of places where a token of type a is directly followed by one
\* of type b
Adjacent(toks, a, b) ==
    Cardinality({i \in 1..(Len(toks) - 1) :
                    toks[i].type = a /\ toks[i + 1].type = b})

\* the number of empty arrays (kind "array") or objects (kind "object") in v
RECURSIVE CountEmpty(_, _)
RECURSIVE CountEmptyIn(_, _)
CountEmpty(v, kind) ==
    CASE v.type = "array" ->
            IF v.array = <<>> THEN (IF kind = "array" THEN 1 ELSE 0)
            ELSE CountEmptyIn(v.array, kind)
      [] v.type = "object" ->
            IF v.object = <<>> THEN (IF kind = "object" THEN 1 ELSE 0)
            ELSE CountEmptyIn([i \in 1..Len(v.object) |-> v.object[i].value], kind)
      [] OTHER -> 0
CountEmptyIn(vs, kind) ==
    IF vs = <<>> THEN 0
    ELSE CountEmpty(Head(vs), kind) + CountEmptyIn(Tail(vs), kind)

\* C3: parsing is fail-fast with no partial result.  json::parse ends either
\* with one value and no error, or with one ParsingError and no value, the
\* activations (and the arrays and objects they were building) gone; the
\* error is at the last token pulled, an Unknown token is never passed over,
\* and once the error is raised no token is pulled and nothing is returned.
C3_Outcome ==
    /\ pc = "done" => result # NoValue /\ error = NoError /\ stack = <<>>
    /\ pc = "error" =>
          /\ result = NoValue /\ error # NoError /\ stack = <<>>
          /\ pulled # <<>> /\ pulled[Len(pulled)] = parser.currentToken
          /\ error.line = parser.currentToken.line
          /\ error.col = parser.currentToken.col
    /\ pc \notin {"done", "error"} => result = NoValue /\ error = NoError
    /\ \A i \in DOMAIN pulled :
          pulled[i].type = "Unknown" => pc = "error" /\ i = Len(pulled)

C3_FailFast ==
    /\ []C3_Outcome
    /\ [][pc = "error" => UNCHANGED <<parser, pulled, result, error, pc>>]_vars

\* C3's case: the parse failed with part of an array already built
C3_Witness ==
    /\ pc = "error"
    /\ Len(pulled) >= 3
    /\ pulled[1].type = "LeftBracket"
    /\ pulled[2].type = "Number"
    /\ result = NoValue

\* C5: trailing commas are rejected.  Whenever json::parse returns a value,
\* no comma among the tokens it read is directly followed by ']' or '}', and
\* the value holds exactly as many empty arrays (objects) as the tokens hold
\* a '[' directly followed by ']' (a '{' by '}').
C5_TrailingCommaRejected ==
    pc = "done" =>
        /\ Adjacent(pulled, "Comma", "RightBracket") = 0
        /\ Adjacent(pulled, "Comma", "RightBrace") = 0
        /\ CountEmpty(result, "array") = Adjacent(pulled, "LeftBracket", "RightBracket")
        /\ CountEmpty(result, "object") = Adjacent(pulled, "LeftBrace", "RightBrace")

\* C5's case: an element, a comma and then the closing bracket were read,
\* and the parse failed there
C5_Witness ==
    /\ pc = "error"
    /\ Len(pulled) >= 4
    /\ pulled[Len(pulled) - 2].type \in {"Number", "String"}
    /\ pulled[Len(pulled) - 1].type = "Comma"
    /\ pulled[Len(pulled)].type \in Closers

\* the tokens of the value json::parse returned: all but the lookahead
ValueTokens == SubSeq(pulled, 1, Len(pulled) - 1)

\* the places of the keys among toks: a String directly before a Colon
KeyPlaces(toks) ==
    {i \in 1..(Len(toks) - 1) : toks[i].type = "String" /\ toks[i + 1].type = "Colon"}

\* the parse returned an object whose members are all numbers
FlatObject ==
    /\ pc = "done"
    /\ result.type = "object"
    /\ \A i \in DOMAIN pulled : pulled[i].type # "LeftBracket"
    /\ Adjacent(pulled, "Colon", "Number") = Cardinality(KeyPlaces(pulled))

\* the members of object with the given key
MembersWith(object, key) == {n \in DOMAIN object : object[n].key = key}

\* the last of the places ps where toks has the key of place i
LastPlace(toks, ps, i) ==
    CHOOSE j \in ps :
        /\ toks[j].lexeme = toks[i].lexeme
        /\ \A k \in ps : toks[k].lexeme = toks[i].lexeme => k <= j

\* C7: duplicate object keys are last-write-wins.  In an object being built,
\* and in a returned object of numbers, every key of the text is in the
\* object exactly once, with the value of its last occurrence in the text.
C7_LastWriteWins ==
    /\ \A n \in DOMAIN stack : \A i \in DOMAIN stack[n].members :
          LET ms == stack[n].members
              last == CHOOSE j \in DOMAIN ms :
                         /\ ms[j].key = ms[i].key
                         /\ \A k \in DOMAIN ms : ms[k].key = ms[i].key => k <= j
              at == MembersWith(stack[n].object, ms[i].key)
          IN /\ Cardinality(at) = 1
             /\ \A m \in at : stack[n].object[m].value = ms[last].value
    /\ FlatObject =>
          \A i \in KeyPlaces(ValueTokens) :
             LET last == LastPlace(ValueTokens, KeyPlaces(ValueTokens), i)
                 at == MembersWith(result.object, KeyOf(ValueTokens[i].lexeme))
             IN /\ Cardinality(at) = 1
                /\ \A m \in at :
                      result.object[m].value =
                          JNumber(stod(ValueTokens[last + 2].lexeme).value)

\* C7's case: an object was returned whose text has a key twice, with
\* different values
C7_Witness ==
    /\ FlatObject
    /\ \E i, j \in KeyPlaces(ValueTokens) :
          /\ i < j
          /\ ValueTokens[i].lexeme = ValueTokens[j].lexeme
          /\ ValueTokens[i + 2].lexeme # ValueTokens[j + 2].lexeme

\* the members of object come in ascending key order, no key twice
Ascending(object) ==
    \A n \in 1..(Len(object) - 1) : StringLess(object[n].key, object[n + 1].key)

RECURSIVE AscendingDeep(_)
AscendingDeep(v) ==
    CASE v.type = "array" -> \A n \in DOMAIN v.array : AscendingDeep(v.array[n])
      [] v.type = "object" ->
            /\ Ascending(v.object)
            /\ \A n \in DOMAIN v.object : AscendingDeep(v.object[n].value)
      [] OTHER -> TRUE

\* every token of text, up to the first EndOfFile or Unknown token
RECURSIVE TokensFrom(_, _, _)
TokensFrom(text, L, toks) ==
    IF nextToken(text, L).token.type \in {"EndOfFile", "Unknown"} THEN toks
    ELSE TokensFrom(text, nextToken(text, L).lexer,
                    Append(toks, nextToken(text, L).token))

\* the keys of a text of tokens, in the order of the text
KeysOf(toks) ==
    [n \in 1..Len(SelectSeq(toks, LAMBDA t : t.type = "Colon")) |->
        KeyOf(toks[CHOOSE i \in KeyPlaces(toks) :
                      Cardinality({j \in KeyPlaces(toks) : j <= i}) = n].lexeme)]

\* C8: object iteration order is lexicographic by key.  In every object,
\* built or being built, the members come in ascending byte-wise key order
\* whatever the order of the text, and serialise writes a returned object of
\* numbers with its keys in that order.
C8_KeyOrder ==
    /\ \A n \in DOMAIN stack : Ascending(stack[n].object)
    /\ AscendingDeep(result)
    /\ FlatObject =>
          KeysOf(TokensFrom(serialise(result, 0), NewLexer, <<>>))
              = [n \in 1..Len(result.object) |-> result.object[n].key]

\* C8's case: an object was returned whose text has a key before a smaller one
C8_Witness ==
    /\ FlatObject
    /\ Len(result.object) >= 2
    /\ \E i, j \in KeyPlaces(ValueTokens) :
          i < j /\ StringLess(KeyOf(ValueTokens[j].lexeme), KeyOf(ValueTokens[i].lexeme))


\* JSON's grammar over tokens (value, array, object): ValueEnd is the index
\* after the value that starts at toks[i], or 0 when toks holds no complete
\* value there.  A Number token is a value when all of its text converts.
TypeAt(toks, i) == IF i \in DOMAIN toks THEN toks[i].type ELSE "None"

NumberOk(lexeme) == stod(lexeme).status = "ok" /\ stod(lexeme).pos = Len(lexeme)

RECURSIVE ValueEnd(_, _)
RECURSIVE ElementsEnd(_, _)
RECURSIVE AfterElement(_, _)
RECURSIVE MembersEnd(_, _)
RECURSIVE AfterMember(_, _)
ValueEnd(toks, i) ==
    CASE TypeAt(toks, i) \in {"String", "True", "False", "Null"} -> i + 1
      [] TypeAt(toks, i) = "Number" -> IF NumberOk(toks[i].lexeme) THEN i + 1 ELSE 0
      [] TypeAt(toks, i) = "LeftBracket" ->
            IF TypeAt(toks, i + 1) = "RightBracket" THEN i + 2
            ELSE ElementsEnd(toks, i + 1)
      [] TypeAt(toks, i) = "LeftBrace" ->
            IF TypeAt(toks, i + 1) = "RightBrace" THEN i + 2
            ELSE MembersEnd(toks, i + 1)
      [] OTHER -> 0
ElementsEnd(toks, i) == AfterElement(toks, ValueEnd(toks, i))
AfterElement(toks, e) ==
    CASE e = 0 -> 0
      [] e # 0 /\ TypeAt(toks, e) = "RightBracket" -> e + 1
      [] e # 0 /\ TypeAt(toks, e) = "Comma" -> ElementsEnd(toks, e + 1)
      [] OTHER -> 0
MembersEnd(toks, i) ==
    IF TypeAt(toks, i) = "String" /\ TypeAt(toks, i + 1) = "Colon"
    THEN AfterMember(toks, ValueEnd(toks, i + 2))
    ELSE 0
AfterMember(toks, e) ==
    CASE e = 0 -> 0
      [] e # 0 /\ TypeAt(toks, e) = "RightBrace" -> e + 1
      [] e # 0 /\ TypeAt(toks, e) = "Comma" -> MembersEnd(toks, e + 1)
      [] OTHER -> 0

\* the tokens pulled start with one complete value
LeadingValue == ValueEnd(pulled, 1) # 0

\* the variant a value that starts with token tok has
VariantOf(tok) ==
    CASE tok.type = "LeftBrace" -> "object"
      [] tok.type = "LeftBracket" -> "array"
      [] tok.type = "String" -> "string"
      [] tok.type = "Number" -> "number"
      [] tok.type \in {"True", "False"} -> "bool"
      [] OTHER -> "null"

\* C2 as the specification states it: when the leading tokens form one
\* complete value, json::parse returns that value whatever follows it.
C2_TrailingIgnored ==
    LeadingValue =>
        /\ pc # "error"
        /\ pc = "done" => result.type = VariantOf(pulled[1])

\* C2 amended: the token after the value is pulled as lookahead.  If it is
\* an Unknown token, json::parse raises the ParsingError of that token; if
\* not, json::parse returns the value, and in both cases nothing after that
\* token is read.
C2_TrailingIgnoredAfterLookahead ==
    /\ pc = "done" => LeadingValue
    /\ LeadingValue /\ ValueEnd(pulled, 1) <= Len(pulled) =>
          /\ ValueEnd(pulled, 1) = Len(pulled)
          /\ parser.lexer.current <= Len(source)
          /\ IF pulled[Len(pulled)].type = "Unknown"
             THEN /\ pc = "error"
                  /\ result = NoValue
                  /\ error.line = pulled[Len(pulled)].line
                  /\ error.col = pulled[Len(pulled)].col
             ELSE /\ pc = "done"
                  /\ result.type = VariantOf(pulled[1])
                  /\ error = NoError

\* C2's case: a value was returned with text after its lookahead token that
\* was never read, an unrecognised character or an opening quote in it
C2_Witness ==
    /\ pc = "done"
    /\ \E i \in (parser.lexer.current + 1)..Len(source) : source[i] \in {"@", "\""}

\* the 1-based line and column of the character after the first off
\* characters of text
LineOf(text, off) == 1 + Cardinality({i \in 1..off : text[i] = "\n"})

ColumnOf(text, off) ==
    off + 1 - (IF \E i \in 1..off : text[i] = "\n"
               THEN CHOOSE i \in 1..off :
                        text[i] = "\n" /\ \A j \in (i + 1)..off : text[j] # "\n"
               ELSE 0)

\* C4: error location accuracy.  A ParsingError carries the line and column
\* of the first character of the offending token, the last token pulled,
\* which starts at offset lexer.start of the text without its byte order mark.
C4_ErrorLocation ==
    pc = "error" =>
        /\ error.line = LineOf(source, parser.lexer.start)
        /\ error.col = ColumnOf(source, parser.lexer.start)

\* the last token pulled is the one stringToken returns at the end of the
\* input
UnterminatedPulled ==
    /\ pulled # <<>>
    /\ pulled[Len(pulled)].type = "Unknown"
    /\ pulled[Len(pulled)].lexeme = UnterminatedLexeme

\* C9: an unterminated string fails with a ParsingError whose message
\* identifies an unterminated string (the diagnostic the lexer gives the
\* token), at the line and column of the opening quote.
C9_UnterminatedString ==
    UnterminatedPulled =>
        /\ pc = "error"
        /\ error.message = "Unterminated string."
        /\ error.line = LineOf(source, parser.lexer.start)
        /\ error.col = ColumnOf(source, parser.lexer.start)

\* the escapes C10 lists, as <<letter, character>>
ListedEscapes ==
    {<<"\"", "\"">>, <<"\\", "\\">>, <<"/", "/">>, <<"b", BS>>, <<"f", "\f">>,
     <<"n", "\n">>, <<"r", "\r">>, <<"t", "\t">>}

\* content with each backslash pair replaced as C10 says
RECURSIVE Decoded(_)
Decoded(content) ==
    IF content = <<>> THEN <<>>
    ELSE IF Head(content) = "\\" /\ Len(content) >= 2
    THEN (IF \E p \in ListedEscapes : p[1] = content[2]
          THEN <<(CHOOSE p \in ListedEscapes : p[1] = content[2])[2]>>
          ELSE <<content[2]>>)
         \o Decoded(SubSeq(content, 3, Len(content)))
    ELSE <<Head(content)>> \o Decoded(Tail(content))

\* the value parseValue has just returned to its caller
Delivered ==
    CASE pc = "done" -> result
      [] pc = "arrayAfter" ->
            stack[Len(stack)].array[Len(stack[Len(stack)].array)]
      [] pc = "objectAfter" ->
            stack[Len(stack)].members[Len(stack[Len(stack)].members)].value
      [] OTHER -> NoValue

\* C10: string value decoding.  The value parsed from a String token (the
\* previous token, once parseString has advanced) is the lexeme without its
\* quotes, each backslash pair replaced: the eight listed escapes by their
\* character, any other pair by its second character.
C10_StringDecoding ==
    pc \in {"done", "arrayAfter", "objectAfter"} /\ parser.previousToken.type = "String" =>
        Delivered = JString(Decoded(SubSeq(parser.previousToken.lexeme, 2,
                                           Len(parser.previousToken.lexeme) - 1)))

\* C10's case: the literal "A" was parsed to the five characters u0041
C10_Witness ==
    /\ pc = "done"
    /\ parser.previousToken.lexeme = <<"\"", "\\", "u", "0", "0", "4", "1", "\"">>
    /\ result.string = <<"u", "0", "0", "4", "1">>


\* C6: comments do not affect the parsed tree.  The parse of the text with
\* its comments replaced by spaces ends as the parse of the text did: both
\* return and the values are equal, or both throw.
C6_CommentsIgnored ==
    phase = 2 /\ pc \in {"done", "error"} =>
        /\ pc = first.status
        /\ result = first.value

\* C6's case: a text with a // comment, or with a block comment, that the
\* stripping changed was parsed to a value both times
C6_Witness ==
    /\ phase = 2
    /\ pc = "done"
    /\ source # input
    /\ \E i \in 1..(Len(input) - 1) : input[i] = "/" /\ input[i + 1] \in {"/", "*"}

\* no control character, backslash or quote in the string t
PlainString(t) ==
    \A i \in DOMAIN t :
        /\ t[i] \notin {"\"", "\\"}
        /\ \E j \in DOMAIN Printable : Printable[j] = t[i]

\* v is a value C1 speaks of: its strings and keys are plain (the numbers of
\* the model are all finite)
RECURSIVE Plain(_)
Plain(v) ==
    /\ PlainString(v.string)
    /\ \A i \in DOMAIN v.array : Plain(v.array[i])
    /\ \A i \in DOMAIN v.object :
          PlainString(v.object[i].key) /\ Plain(v.object[i].value)

\* C1: round trip.  For a value v with plain strings and finite numbers,
\* the parse of the text serialise writes for v returns a value equal to v.
C1_RoundTrip ==
    Plain(input) /\ pc \in {"done", "error"} => pc = "done" /\ result = input

\* the predicates that are true of v
TruePredicates(v) ==
    {n \in {"isNull", "isBool", "isNumber", "isString", "isArray", "isObject"} :
        CASE n = "isNull" -> isNull(v)
          [] n = "isBool" -> isBool(v)
          [] n = "isNumber" -> isNumber(v)
          [] n = "isString" -> isString(v)
          [] n = "isArray" -> isArray(v)
          [] n = "isObject" -> isObject(v)}

\* the predicate that goes with each accessor
PredicateOf(accessor) ==
    CASE accessor = "asBool" -> "isBool"
      [] accessor = "asNumber" -> "isNumber"
      [] accessor = "asString" -> "isString"
      [] accessor = "asArray" -> "isArray"
      [] accessor = "asObject" -> "isObject"

\* what C11 says of the value held and of the accessor call just made
C11_Accessed ==
    /\ Cardinality(TruePredicates(input)) = 1
    /\ pc \in {"returned", "thrown"} =>
          /\ (pc = "returned") = (PredicateOf(first.accessor) \in TruePredicates(input))
          /\ pc = "thrown" => first.status = "bad_variant_access"
          /\ pc = "returned" => first.payload = Payload(input, first.type)

\* C11: variant discipline.  Exactly one of the six predicates is true of a
\* JsonValue; an accessor returns the payload when the value holds the
\* accessor's variant and raises std::bad_variant_access when it does not,
\* and the call leaves the value as it was.
C11_VariantDiscipline ==
    /\ []C11_Accessed
    /\ [][pc = "hold" /\ pc' # "hold" => input' = input]_vars

\* C11's case: asString was called on a value that holds a number, and raised
C11_Witness ==
    /\ pc = "thrown"
    /\ first.accessor = "asString"
    /\ isNumber(input)

\* the characters between the quotes of a String token's lexeme
Inner(lexeme) == SubSeq(lexeme, 2, Len(lexeme) - 1)

\* the last four tokens pulled are a key, a colon, a string and the token
\* after it: parseObject has just stored a member whose value is a string
StringMemberStored ==
    /\ pc = "objectAfter"
    /\ Len(pulled) >= 4
    /\ pulled[Len(pulled) - 3].type = "String"
    /\ pulled[Len(pulled) - 2].type = "Colon"
    /\ pulled[Len(pulled) - 1].type = "String"

\* the keys of an object, as a set
KeySet(object) == {object[n].key : n \in DOMAIN object}

\* the parse returned an object whose members are all strings
ObjectOfStrings ==
    /\ pc = "done"
    /\ result.type = "object"
    /\ \A n \in DOMAIN result.object : result.object[n].value.type = "string"

\* C12: object keys are never escape-decoded.  The key stored for a member
\* is the text between the quotes of its key token, backslashes included,
\* while a string value is decoded; so an object of strings has one member
\* for each spelling of a key in the text, escaped and literal spellings of
\* the same characters apart.
C12_KeysVerbatim ==
    /\ StringMemberStored =>
          /\ stack[Len(stack)].members[Len(stack[Len(stack)].members)].key
                = Inner(pulled[Len(pulled) - 3].lexeme)
          /\ stack[Len(stack)].members[Len(stack[Len(stack)].members)].value
                = JString(Decoded(Inner(pulled[Len(pulled) - 1].lexeme)))
    /\ ObjectOfStrings =>
          /\ KeySet(result.object)
                = {Inner(ValueTokens[i].lexeme) : i \in KeyPlaces(ValueTokens)}
          /\ Len(result.object) = Cardinality(KeySet(result.object))

\* C12's case: the text spells one key a\/b and another a/b, both with the
\* value of that spelling; the object returned has both keys, and both
\* values are a/b
C12_Witness ==
    /\ ObjectOfStrings
    /\ {<<"a", "\\", "/", "b">>, <<"a", "/", "b">>} \subseteq KeySet(result.object)
    /\ \A n \in DOMAIN result.object :
          result.object[n].key \in {<<"a", "\\", "/", "b">>, <<"a", "/", "b">>}
              => result.object[n].value = JString(<<"a", "/", "b">>)

====
